---- MODULE Spec2Model ----
(***************************************************************************)
(* Podcastify frontend: the BookAutocomplete search widget (debounce,      *)
(* request cancellation, cache, typewriter placeholder), the title         *)
(* relevance score, and the three-step conversion pipeline of BookDetails. *)
(*                                                                         *)
(* A JavaScript string is modelled as a sequence of one-character strings, *)
(* so that trimming, case folding, prefix tests and splitting are computed *)
(* character by character.                                                 *)
(***************************************************************************)
EXTENDS Integers, Sequences, FiniteSets, TLC

VARIABLES
    \* ---- calculateTitleMatch harness
    tmTitle, tmQuery, tmResult,
    \* ---- router
    location,       \* useLocation(): [pathname, state]
    \* ---- BookDetails
    isSearching, searchStep, downloadError,
    hsPc,           \* position of the running handleSummary, "idle" if none
    pdfData, chapterData, scriptData,   \* locals of handleSummary
    hsCalls,        \* requests issued by the current handleSummary run
    hsResponses,    \* responses received by the current handleSummary run
    hsRuns,         \* number of clicks on "First Chapter" so far
    \* ---- BookAutocomplete: useState
    query, suggestions, isLoading, isOpen, activeIndex, isFocused,
    displayPlaceholder, isTyping,
    \* ---- BookAutocomplete: useRef
    abortControllerRef,     \* id of the request of the current controller, 0 if null
    debounceTimerRef,       \* id of the last debounce timer, 0 if null
    \* ---- module and environment
    searchCache,    \* the module-level Map: cache key -> results
    timers,         \* pending debounce timeouts
    twTimeout,      \* pending timeout of the typewriter effect, Null if none
    requests,       \* search requests whose fetchBooks call has not settled
    instance,       \* number of BookAutocomplete instances mounted so far
    \* ---- history
    inputCount,     \* number of input changes so far
    nextRequestId,  \* number of search requests issued so far, plus one
    lastInput,      \* the most recent input change
    lastFetch,      \* the timer whose firing invoked fetchBooks most recently
    successes,      \* the requests that completed successfully
    lastKey,        \* the key whose keydown the last step handled, NoKey if none
    onSelectCalls,  \* number of calls of the onSelect prop so far
    lastScored      \* the scored, relevant results of the last ranking that completed

tmVars == <<tmTitle, tmQuery, tmResult>>

bdVars == <<isSearching, searchStep, downloadError, hsPc, pdfData,
            chapterData, scriptData, hsCalls, hsResponses, hsRuns>>

acVars == <<query, suggestions, isLoading, isOpen, activeIndex, isFocused,
            displayPlaceholder, isTyping, abortControllerRef,
            debounceTimerRef, searchCache, timers, twTimeout, requests,
            instance, inputCount, nextRequestId, lastInput, lastFetch,
            successes, lastKey, onSelectCalls,
            lastScored>>

nonBdVars == <<tmVars, acVars>>

vars == <<tmVars, location, bdVars, acVars>>

(***************************************************************************)
(* Strings                                                                 *)
(***************************************************************************)

\* The value of a missing argument (undefined / null): not a string.
Undefined == <<"undefined">>

\* Characters used to build inputs: a lower-case letter, an upper-case
\* letter, and a blank.
Alphabet == {"a", "B", " "}

IsWhitespace(c) == c = " "

\* String.prototype.toLowerCase on one character.
LowerChar(c) ==
    CASE c = "A" -> "a"
      [] c = "B" -> "b"
      [] c = "C" -> "c"
      [] c = "D" -> "d"
      [] c = "S" -> "s"
      [] OTHER -> c

ToLowerCase(s) == [i \in 1..Len(s) |-> LowerChar(s[i])]

RECURSIVE TrimStart(_)
TrimStart(s) ==
    IF s # <<>> /\ IsWhitespace(Head(s)) THEN TrimStart(Tail(s)) ELSE s

RECURSIVE TrimEnd(_)
TrimEnd(s) ==
    IF s # <<>> /\ IsWhitespace(s[Len(s)])
    THEN TrimEnd(SubSeq(s, 1, Len(s) - 1))
    ELSE s

\* String.prototype.trim
Trim(s) == TrimEnd(TrimStart(s))

\* String.prototype.startsWith
StartsWith(s, p) == Len(p) <= Len(s) /\ SubSeq(s, 1, Len(p)) = p

\* String.prototype.includes
Includes(s, p) ==
    \E i \in 0..(Len(s) - Len(p)) : SubSeq(s, i + 1, i + Len(p)) = p

\* String.prototype.split(/\s+/): the pieces between maximal runs of
\* whitespace; a leading or trailing run yields an empty piece, and the
\* empty string yields one empty piece.
RECURSIVE SplitFrom(_, _, _)
SplitFrom(s, i, cur) ==
    IF i > Len(s) THEN <<cur>>
    ELSE IF IsWhitespace(s[i])
         THEN IF i > 1 /\ IsWhitespace(s[i - 1])
              THEN SplitFrom(s, i + 1, cur)
              ELSE <<cur>> \o SplitFrom(s, i + 1, <<>>)
         ELSE SplitFrom(s, i + 1, Append(cur, s[i]))

SplitWhitespace(s) == SplitFrom(s, 1, <<>>)

\* All strings over Alphabet of length at most n.
RECURSIVE StringsUpTo(_)
StringsUpTo(n) ==
    IF n = 0 THEN {<<>>}
    ELSE LET shorter == StringsUpTo(n - 1)
         IN  shorter \cup {Append(s, c) : s \in shorter, c \in Alphabet}

(***************************************************************************)
(* calculateTitleMatch                                                     *)
(***************************************************************************)

\* !x for a string argument: undefined, null and "" are falsy.
Falsy(s) == s = Undefined \/ s = <<>>

\* Math.round of the non-negative rational num/den (halves round up).
MathRound(num, den) == (2 * num + den) \div (2 * den)

\* The inner loop over titleWords for one query word.
FoundExact(qWord, titleWords) ==
    \E i \in 1..Len(titleWords) : titleWords[i] = qWord

FoundPartial(qWord, titleWords) ==
    \E i \in 1..Len(titleWords) :
        StartsWith(titleWords[i], qWord) \/ StartsWith(qWord, titleWords[i])

LongerThanOne(w) == Len(w) > 1

\* The word score without the division by the number of query words.
WordScoreUnnormalised(queryWords, titleWords) ==
    LET n == Len(queryWords)
        matchedWords ==
            Cardinality({i \in 1..n : FoundExact(queryWords[i], titleWords)})
        partialMatches ==
            Cardinality({i \in 1..n :
                /\ ~FoundExact(queryWords[i], titleWords)
                /\ FoundPartial(queryWords[i], titleWords)})
    IN  matchedWords * 70 + partialMatches * 20

\* Lines 40-64: exact and partial word matches, scaled and rounded.
WordScore(queryWords, titleWords) ==
    LET n == Len(queryWords)
        matchedWords ==
            Cardinality({i \in 1..n : FoundExact(queryWords[i], titleWords)})
        partialMatches ==
            Cardinality({i \in 1..n :
                /\ ~FoundExact(queryWords[i], titleWords)
                /\ FoundPartial(queryWords[i], titleWords)})
    IN  MathRound(matchedWords * 70 + partialMatches * 20, n)

\* title and q are the parameters title and query of the source.
calculateTitleMatch(title, q) ==
    IF Falsy(title) \/ Falsy(q) THEN 0
    ELSE
      LET normalizedTitle == Trim(ToLowerCase(title))
          normalizedQuery == Trim(ToLowerCase(q))
          queryWords == SelectSeq(SplitWhitespace(normalizedQuery), LongerThanOne)
          titleWords == SplitWhitespace(normalizedTitle)
      IN  IF normalizedTitle = normalizedQuery THEN 100
          ELSE IF StartsWith(normalizedTitle, normalizedQuery) THEN 95
          ELSE IF StartsWith(normalizedQuery, normalizedTitle) THEN 90
          ELSE IF Includes(normalizedTitle, normalizedQuery) THEN 85
          ELSE IF Len(queryWords) = 0 THEN 0
          ELSE WordScore(queryWords, titleWords)

(***************************************************************************)
(* BookAutocomplete: result ranking (fetchBooks, lines 174-208)            *)
(***************************************************************************)

\* A value that is absent (null / undefined) where a record is expected.
Null == [absent |-> TRUE]

HomeLocation == [pathname |-> "/", state |-> Null]

\* What a fetch can produce: the promise rejects (network error), or a
\* response arrives with ok true or false whose body parses as JSON or not.
ErrorBodies == { [detail |-> "Book not found"], [detail |-> ""] }

NetworkError == [kind |-> "reject", ok |-> FALSE, json |-> FALSE, body |-> Null]

ResponsesWith(bodies) ==
    {NetworkError}
    \cup { [kind |-> "response", ok |-> TRUE, json |-> TRUE, body |-> b] : b \in bodies }
    \cup { [kind |-> "response", ok |-> FALSE, json |-> TRUE, body |-> b] : b \in ErrorBodies }
    \cup { [kind |-> "response", ok |-> o, json |-> FALSE, body |-> Null] : o \in BOOLEAN }

\* body.field of a JSON body; a missing property reads as undefined.
Get(body, field) ==
    IF field \in DOMAIN body THEN body[field] ELSE "undefined"

\* if (body.field) for a boolean property: undefined is falsy.
IsSet(body, field) == field \in DOMAIN body /\ body[field] = TRUE

\* The request succeeded: the code reaches the statement after
\* "const data = await response.json()".
Succeeded(r) == r.kind = "response" /\ r.ok /\ r.json

\* Documents of the search API.  A number that is missing is 0 (both are
\* falsy and read as 0 or null); edition_count is a multiple of 5 and
\* ratings_average an integer, which keeps every score an integer.
Doc(key, title, author_name, year, cover, editions, rating) ==
    [key |-> key, title |-> title, author_name |-> author_name,
     first_publish_year |-> year, cover_i |-> cover,
     edition_count |-> editions, ratings_average |-> rating]

DocPopular == Doc("/works/OL1W", <<"a","b">>, <<"Ann">>, 1999, 7, 100, 4)
DocEdition == Doc("/works/OL2W", <<"a","B","!">>, <<"Ann","Bob">>, 0, 0, 5, 0)
DocOther == Doc("/works/OL3W", <<"b","a"," ","a">>, <<>>, 2001, 0, 60, 3)
DocUntitled == Doc("/works/OL4W", Undefined, <<>>, 0, 0, 0, 0)
DocUntitledPopular == Doc("/works/OL5W", Undefined, <<>>, 0, 0, 55, 0)
DocHyphen == Doc("/works/OL6W", <<"a","-","b">>, <<"Cy">>, 1999, 7, 100, 5)
DocA == Doc("/works/OL7W", <<"a">>, <<>>, 0, 0, 55, 1)
DocB == Doc("/works/OL8W", <<"b">>, <<>>, 0, 0, 60, 2)
DocBSpaceA == Doc("/works/OL9W", <<"b"," ","a">>, <<>>, 0, 0, 65, 0)
DocASpaceB == Doc("/works/OL10W", <<"a"," ","b">>, <<>>, 0, 3, 70, 5)
DocBA == Doc("/works/OL11W", <<"b","a">>, <<"Di">>, 1980, 0, 75, 0)

\* A response with more than six relevant titles, three of which share the
\* normalized title "ab".
DocsMany ==
    <<DocEdition, DocA, DocPopular, DocOther, DocB, DocBSpaceA, DocHyphen,
      DocASpaceB, DocBA>>

\* data.docs of the responses.
DocLists ==
    { <<>>,
      <<DocEdition, DocPopular, DocOther>>,
      <<DocUntitled, DocOther>>,
      <<DocUntitledPopular>> }

\* JSON bodies of the search responses; the last one has no docs.
SearchBodies == { [docs |-> d] : d \in DocLists } \cup { [numFound |-> 0] }

\* The JSON body of a search response with more than six relevant titles.
SearchBodiesMany == { [docs |-> DocsMany] }

\* Array.prototype.join(', ') of a list of names, as the list of its pieces.
RECURSIVE Join(_)
Join(names) ==
    IF Len(names) <= 1 THEN names
    ELSE <<Head(names), ", ">> \o Join(Tail(names))

\* Lines 176-195: the result record of one document.
Transform(book, cleanQuery) ==
    LET titleScore == calculateTitleMatch(book.title, cleanQuery)
        popularityScore ==
            IF book.edition_count >= 100 THEN 20 ELSE book.edition_count \div 5
        ratingScore == book.ratings_average * 2
        hasYear == IF book.first_publish_year # 0 THEN 5 ELSE 0
        hasCover == IF book.cover_i # 0 THEN 5 ELSE 0
    IN  [key |-> book.key,
         title |-> book.title,
         authors |-> IF book.author_name = <<>>
                     THEN <<"Unknown author">>
                     ELSE Join(book.author_name),
         year |-> book.first_publish_year,
         cover_i |-> book.cover_i,
         editionCount |-> book.edition_count,
         score |-> titleScore + popularityScore + ratingScore + hasYear + hasCover,
         titleScore |-> titleScore]

\* Line 197.
Relevant(book) == book.titleScore >= 20 \/ book.editionCount > 50

\* Line 199: a stable sort by descending score.
RECURSIVE InsertByScore(_, _)
InsertByScore(sorted, book) ==
    IF sorted = <<>> THEN <<book>>
    ELSE IF Head(sorted).score >= book.score
         THEN <<Head(sorted)>> \o InsertByScore(Tail(sorted), book)
         ELSE <<book>> \o sorted

RECURSIVE SortByScore(_)
SortByScore(books) ==
    IF books = <<>> THEN <<>>
    ELSE InsertByScore(SortByScore(SubSeq(books, 1, Len(books) - 1)),
                       books[Len(books)])

\* /[^\w\s]/: a character that is neither a word character (letter, digit,
\* underscore) nor whitespace.
IsPunctuation(c) == c \in {"!", "?", ".", ",", ":", ";", "'", "-"}

NotPunctuation(c) == ~IsPunctuation(c)

\* Lines 202, 204: title.toLowerCase().replace(/[^\w\s]/g, '')
NormalizeTitle(title) == SelectSeq(ToLowerCase(title), NotPunctuation)

\* The filter that compares the titles as they are.
DeduplicateExactTitle(books) ==
    LET first(i) ==
            \A j \in 1..(i - 1) : books[j].title # books[i].title
        kept == {i \in 1..Len(books) : first(i)}
        RECURSIVE Pick(_)
        Pick(i) ==
            IF i > Len(books) THEN <<>>
            ELSE IF i \in kept THEN <<books[i]>> \o Pick(i + 1)
            ELSE Pick(i + 1)
    IN  Pick(1)

\* Lines 201-206: keep the first book of each normalized title.
Deduplicate(books) ==
    LET first(i) ==
            \A j \in 1..(i - 1) :
                NormalizeTitle(books[j].title) # NormalizeTitle(books[i].title)
        kept == {i \in 1..Len(books) : first(i)}
        RECURSIVE Pick(_)
        Pick(i) ==
            IF i > Len(books) THEN <<>>
            ELSE IF i \in kept THEN <<books[i]>> \o Pick(i + 1)
            ELSE Pick(i + 1)
    IN  Pick(1)

\* Line 208.
TopSix(books) == SubSeq(books, 1, IF Len(books) < 6 THEN Len(books) ELSE 6)

Scored(docs, cleanQuery) ==
    SelectSeq([i \in 1..Len(docs) |-> Transform(docs[i], cleanQuery)], Relevant)

\* The ranking throws a TypeError: data.docs is missing, or a book that
\* passes the filter has no title for toLowerCase.
RankingThrows(data, cleanQuery) ==
    \/ "docs" \notin DOMAIN data
    \/ LET scored == Scored(data.docs, cleanQuery)
       IN  \E i \in 1..Len(scored) : scored[i].title = Undefined

\* Lines 165-208: the try block reaches line 210.
SearchSucceeds(response, cleanQuery) ==
    Succeeded(response) /\ ~RankingThrows(response.body, cleanQuery)

\* Lines 175-208.
RankResults(docs, cleanQuery) ==
    TopSix(Deduplicate(SortByScore(Scored(docs, cleanQuery))))

(***************************************************************************)
(* BookAutocomplete: state, effects and handlers                           *)
(***************************************************************************)

TYPEWRITER_TEXT ==
    <<"S","e","a","r","c","h"," ","f","o","r"," ","a","n","y"," ",
      "b","o","o","k",".",".",".">>
TYPING_SPEED == 80
DELETING_SPEED == 40
PAUSE_AFTER_TYPE == 2000
PAUSE_AFTER_DELETE == 500
DEBOUNCE_DELAY == 200

\* The typewriter effect that animates regardless of query and focus.
TypewriterEffectAlways(q, focused, placeholder, typing) ==
    IF typing
    THEN IF Len(placeholder) < Len(TYPEWRITER_TEXT)
         THEN [set |-> "displayPlaceholder", delay |-> TYPING_SPEED,
               value |-> SubSeq(TYPEWRITER_TEXT, 1, Len(placeholder) + 1)]
         ELSE [set |-> "isTyping", delay |-> PAUSE_AFTER_TYPE, value |-> FALSE]
    ELSE IF Len(placeholder) > 0
         THEN [set |-> "displayPlaceholder", delay |-> DELETING_SPEED,
               value |-> SubSeq(placeholder, 1, Len(placeholder) - 1)]
         ELSE [set |-> "isTyping", delay |-> PAUSE_AFTER_DELETE, value |-> TRUE]

\* The typewriter effect that never leaves the typing phase.
TypewriterEffectNoPause(q, focused, placeholder, typing) ==
    IF Len(q) > 0 \/ focused THEN Null
    ELSE IF typing /\ Len(placeholder) < Len(TYPEWRITER_TEXT)
         THEN [set |-> "displayPlaceholder", delay |-> TYPING_SPEED,
               value |-> SubSeq(TYPEWRITER_TEXT, 1, Len(placeholder) + 1)]
         ELSE [set |-> "isTyping", delay |-> PAUSE_AFTER_TYPE, value |-> TRUE]

\* Lines 98-131: the timeout that is pending once the effect has run for the
\* given dependencies (the cleanup has cleared the previous one).
TypewriterEffect(q, focused, placeholder, typing) ==
    IF Len(q) > 0 \/ focused THEN Null
    ELSE IF typing
    THEN IF Len(placeholder) < Len(TYPEWRITER_TEXT)
         THEN [set |-> "displayPlaceholder", delay |-> TYPING_SPEED,
               value |-> SubSeq(TYPEWRITER_TEXT, 1, Len(placeholder) + 1)]
         ELSE [set |-> "isTyping", delay |-> PAUSE_AFTER_TYPE, value |-> FALSE]
    ELSE IF Len(placeholder) > 0
         THEN [set |-> "displayPlaceholder", delay |-> DELETING_SPEED,
               value |-> SubSeq(placeholder, 1, Len(placeholder) - 1)]
         ELSE [set |-> "isTyping", delay |-> PAUSE_AFTER_DELETE, value |-> TRUE]

\* App with its BookAutocomplete is rendered on the home route.
Mounted == location.pathname = "/"

\* The last step was not the keydown handler.
NoKey == "none"

\* Lines 78-93: useState and useRef initial values of a new instance.
AutocompleteInit ==
    /\ query = <<>>
    /\ suggestions = <<>>
    /\ isLoading = FALSE
    /\ isOpen = FALSE
    /\ activeIndex = -1
    /\ isFocused = FALSE
    /\ displayPlaceholder = <<>>
    /\ isTyping = TRUE
    /\ abortControllerRef = 0
    /\ debounceTimerRef = 0
    /\ searchCache = <<>>
    /\ timers = {}
    /\ twTimeout = TypewriterEffect(<<>>, FALSE, <<>>, TRUE)
    /\ requests = {}
    /\ instance = 1
    /\ inputCount = 0
    /\ nextRequestId = 1
    /\ lastInput = Null
    /\ lastFetch = Null
    /\ successes = {}
    /\ lastKey = NoKey
    /\ onSelectCalls = 0
    /\ lastScored = <<>>

\* Values an input change can carry.
InputValues ==
    { <<>>, <<"a"," ">>, <<"a","b">>, <<"a","B"," ">>, <<"b","a">> }

MaxInputChanges == 3
MaxRequests == 2
MaxMounts == 2

\* Line 138 and line 141.
CleanQuery(searchQuery) == Trim(searchQuery)
CacheKey(searchQuery) == ToLowerCase(CleanQuery(searchQuery))

\* A cache lookup that never finds the key.
CacheHasNever(key) == FALSE

\* Line 142: searchCache.has(cacheKey)
CacheHas(key) == key \in DOMAIN searchCache

\* No abort of the previous controller.
AbortNothing(reqs, ref) == reqs

\* Lines 150-152 and 339: abortControllerRef.current.abort(); a request that
\* has settled is not affected.
AbortCurrent(reqs, ref) ==
    { IF r.id = ref THEN [r EXCEPT !.aborted = TRUE] ELSE r : r \in reqs }

\* No clearTimeout of the previous timer.
ClearNothing(pending, ref) == pending

\* Lines 235-237 and 338: clearTimeout(debounceTimerRef.current)
ClearTimeout(pending, ref) == { t \in pending : t.id # ref }

\* The length test without trim().
IsShortUntrimmed(value) == Len(value) < 2

\* Line 240: value.trim().length < 2
IsShort(value) == Len(Trim(value)) < 2

\* Lines 137-168: the synchronous part of fetchBooks, up to the await of
\* fetch.  by is the debounce timer whose callback makes the call.
FetchBooks(searchQuery, by) ==
    LET cleanQuery == CleanQuery(searchQuery)
        cacheKey == CacheKey(searchQuery)
    IN  /\ lastFetch' = by
        /\ IF CacheHas(cacheKey)
           THEN /\ suggestions' = searchCache[cacheKey]
                /\ isLoading' = FALSE
                /\ isOpen' = TRUE
                /\ UNCHANGED <<requests, abortControllerRef, nextRequestId>>
           ELSE /\ nextRequestId <= MaxRequests
                /\ requests' = AbortCurrent(requests, abortControllerRef)
                       \cup { [id |-> nextRequestId, cleanQuery |-> cleanQuery,
                               cacheKey |-> cacheKey, aborted |-> FALSE,
                               stage |-> "fetch", by |-> by.id,
                               inst |-> instance] }
                /\ abortControllerRef' = nextRequestId
                /\ nextRequestId' = nextRequestId + 1
                /\ UNCHANGED <<suggestions, isLoading, isOpen>>

\* The typewriter effect re-runs after a render of the mounted instance.
RunTypewriterEffect ==
    twTimeout' = TypewriterEffect(query', isFocused', displayPlaceholder', isTyping')

\* The instance that created the timer or request x is the mounted one, so
\* that its state setters still have an effect.
Live(x) == Mounted /\ x.inst = instance

\* Lines 229-254: onChange of the input.
HandleInputChange(value) ==
    /\ Mounted
    /\ isFocused
    /\ value # query
    /\ inputCount < MaxInputChanges
    /\ inputCount' = inputCount + 1
    /\ lastInput' = [id |-> inputCount + 1, value |-> value]
    /\ query' = value
    /\ activeIndex' = -1
    /\ IF IsShort(value)
       THEN /\ timers' = ClearTimeout(timers, debounceTimerRef)
            /\ suggestions' = <<>>
            /\ isOpen' = FALSE
            /\ isLoading' = FALSE
            /\ UNCHANGED debounceTimerRef
       ELSE /\ isLoading' = TRUE
            /\ timers' = ClearTimeout(timers, debounceTimerRef)
                   \cup { [id |-> inputCount + 1, value |-> value,
                           delay |-> DEBOUNCE_DELAY, inst |-> instance] }
            /\ debounceTimerRef' = inputCount + 1
            /\ UNCHANGED <<suggestions, isOpen>>
    /\ UNCHANGED <<isFocused, displayPlaceholder, isTyping, abortControllerRef,
                   searchCache, requests, instance, nextRequestId, lastFetch,
                   successes>>
    /\ lastKey' = NoKey
    /\ UNCHANGED <<onSelectCalls, lastScored>>
    /\ UNCHANGED <<tmVars, location, bdVars>>
    /\ RunTypewriterEffect

\* Lines 251-253: the debounce timeout fires and calls fetchBooks(value).
\* Only a timeout of the mounted instance is let fire: the refs and the
\* state of an earlier instance are not kept.
DebounceFire(t) ==
    /\ t \in timers
    /\ Live(t)
    /\ timers' = timers \ {t}
    /\ FetchBooks(t.value, t)
    /\ UNCHANGED <<query, activeIndex, isFocused, displayPlaceholder, isTyping,
                   debounceTimerRef, searchCache, instance, inputCount,
                   lastInput, successes>>
    /\ lastKey' = NoKey
    /\ UNCHANGED <<onSelectCalls, lastScored>>
    /\ UNCHANGED <<tmVars, location, bdVars>>
    /\ RunTypewriterEffect

\* Lines 165-172: fetch resolves with a response whose ok is true, and the
\* call goes on to await response.json(), which reads the body.
FetchResolves(r) ==
    /\ r \in requests
    /\ ~r.aborted
    /\ r.stage = "fetch"
    /\ requests' = (requests \ {r}) \cup {[r EXCEPT !.stage = "json"]}
    /\ UNCHANGED <<query, suggestions, isLoading, isOpen, activeIndex,
                   isFocused, displayPlaceholder, isTyping, abortControllerRef,
                   debounceTimerRef, searchCache, timers, instance, inputCount,
                   nextRequestId, lastInput, lastFetch, successes>>
    /\ lastKey' = NoKey
    /\ UNCHANGED <<onSelectCalls, lastScored>>
    /\ UNCHANGED <<tmVars, location, bdVars>>
    /\ RunTypewriterEffect

\* Lines 172-214: response.json() resolves and the ranking succeeds.
RespondOk(r, response) ==
    /\ r \in requests
    /\ ~r.aborted
    /\ r.stage = "json"
    /\ SearchSucceeds(response, r.cleanQuery)
    /\ requests' = requests \ {r}
    /\ LET results == RankResults(response.body.docs, r.cleanQuery)
       IN  /\ searchCache' = (r.cacheKey :> results) @@ searchCache
           /\ IF Live(r)
              THEN /\ suggestions' = results
                   /\ isOpen' = TRUE
                   /\ isLoading' = FALSE
              ELSE UNCHANGED <<suggestions, isOpen, isLoading>>
    /\ successes' = successes \cup {[id |-> r.id, cacheKey |-> r.cacheKey, by |-> r.by]}
    /\ UNCHANGED <<query, activeIndex, isFocused, displayPlaceholder, isTyping,
                   abortControllerRef, debounceTimerRef, timers, instance,
                   inputCount, nextRequestId, lastInput, lastFetch>>
    /\ lastKey' = NoKey
    /\ lastScored' = Scored(response.body.docs, r.cleanQuery)
    /\ UNCHANGED onSelectCalls
    /\ UNCHANGED <<tmVars, location, bdVars>>
    /\ RunTypewriterEffect

\* The promise that the call awaits settles with this failure: fetch
\* rejects or resolves with a response that is not OK (lines 165-170), or
\* the body of an OK response does not parse or the ranking throws (lines
\* 172-208).
FailsAt(r, response) ==
    IF r.stage = "fetch"
    THEN response.kind = "reject" \/ ~response.ok
    ELSE /\ response.kind = "response"
         /\ response.ok
         /\ ~SearchSucceeds(response, r.cleanQuery)

\* The catch block that leaves the shown suggestions in place.
RespondErrorKeepsList(r, response) ==
    /\ r \in requests
    /\ ~r.aborted
    /\ FailsAt(r, response)
    /\ requests' = requests \ {r}
    /\ IF Live(r)
       THEN /\ suggestions' = suggestions
            /\ isLoading' = FALSE
       ELSE UNCHANGED <<suggestions, isLoading>>
    /\ UNCHANGED <<query, isOpen, activeIndex, isFocused, displayPlaceholder,
                   isTyping, abortControllerRef, debounceTimerRef, searchCache,
                   timers, instance, inputCount, nextRequestId, lastInput,
                   lastFetch, successes>>
    /\ lastKey' = NoKey
    /\ UNCHANGED <<onSelectCalls, lastScored>>
    /\ UNCHANGED <<tmVars, location, bdVars>>
    /\ RunTypewriterEffect

\* Lines 165-172 and 215-222: fetch rejects, the response is not OK, or the
\* ranking throws; the error is not an AbortError.
RespondError(r, response) ==
    /\ r \in requests
    /\ ~r.aborted
    /\ FailsAt(r, response)
    /\ requests' = requests \ {r}
    /\ IF Live(r)
       THEN /\ suggestions' = <<>>
            /\ isLoading' = FALSE
       ELSE UNCHANGED <<suggestions, isLoading>>
    /\ UNCHANGED <<query, isOpen, activeIndex, isFocused, displayPlaceholder,
                   isTyping, abortControllerRef, debounceTimerRef, searchCache,
                   timers, instance, inputCount, nextRequestId, lastInput,
                   lastFetch, successes>>
    /\ lastKey' = NoKey
    /\ UNCHANGED <<onSelectCalls, lastScored>>
    /\ UNCHANGED <<tmVars, location, bdVars>>
    /\ RunTypewriterEffect

\* Lines 215-222: the fetch or the response.json() of an aborted request
\* rejects with AbortError.
AbortSettle(r) ==
    /\ r \in requests
    /\ r.aborted
    /\ requests' = requests \ {r}
    /\ IF Live(r) THEN isLoading' = FALSE ELSE UNCHANGED isLoading
    /\ UNCHANGED <<query, suggestions, isOpen, activeIndex, isFocused,
                   displayPlaceholder, isTyping, abortControllerRef,
                   debounceTimerRef, searchCache, timers, instance, inputCount,
                   nextRequestId, lastInput, lastFetch, successes>>
    /\ lastKey' = NoKey
    /\ UNCHANGED <<onSelectCalls, lastScored>>
    /\ UNCHANGED <<tmVars, location, bdVars>>
    /\ RunTypewriterEffect

\* Lines 365-368: onFocus of the input.
HandleFocus ==
    /\ Mounted
    /\ ~isFocused
    /\ isFocused' = TRUE
    /\ isOpen' = IF Len(Trim(query)) >= 2 /\ Len(suggestions) > 0
                 THEN TRUE ELSE isOpen
    /\ UNCHANGED <<query, suggestions, isLoading, activeIndex,
                   displayPlaceholder, isTyping, abortControllerRef,
                   debounceTimerRef, searchCache, timers, requests, instance,
                   inputCount, nextRequestId, lastInput, lastFetch, successes>>
    /\ lastKey' = NoKey
    /\ UNCHANGED <<onSelectCalls, lastScored>>
    /\ UNCHANGED <<tmVars, location, bdVars>>
    /\ RunTypewriterEffect

\* Line 369: onBlur of the input.
HandleBlur ==
    /\ Mounted
    /\ isFocused
    /\ isFocused' = FALSE
    /\ UNCHANGED <<query, suggestions, isLoading, isOpen, activeIndex,
                   displayPlaceholder, isTyping, abortControllerRef,
                   debounceTimerRef, searchCache, timers, requests, instance,
                   inputCount, nextRequestId, lastInput, lastFetch, successes>>
    /\ lastKey' = NoKey
    /\ UNCHANGED <<onSelectCalls, lastScored>>
    /\ UNCHANGED <<tmVars, location, bdVars>>
    /\ RunTypewriterEffect

\* Lines 107-126: the timeout of the typewriter effect fires.
TypewriterFire ==
    /\ Mounted
    /\ twTimeout # Null
    /\ IF twTimeout.set = "displayPlaceholder"
       THEN /\ displayPlaceholder' = twTimeout.value
            /\ UNCHANGED isTyping
       ELSE /\ isTyping' = twTimeout.value
            /\ UNCHANGED displayPlaceholder
    /\ UNCHANGED <<query, suggestions, isLoading, isOpen, activeIndex,
                   isFocused, abortControllerRef, debounceTimerRef,
                   searchCache, timers, requests, instance, inputCount,
                   nextRequestId, lastInput, lastFetch, successes>>
    /\ lastKey' = NoKey
    /\ UNCHANGED <<onSelectCalls, lastScored>>
    /\ UNCHANGED <<tmVars, location, bdVars>>
    /\ RunTypewriterEffect

\* The cleanup that clears the timer and leaves the request running.
UnmountCleanupNoAbort ==
    /\ timers' = ClearTimeout(timers, debounceTimerRef)
    /\ requests' = requests

\* Lines 336-341: the cleanup that the unmount runs.
UnmountCleanup ==
    /\ timers' = ClearTimeout(timers, debounceTimerRef)
    /\ requests' = AbortCurrent(requests, abortControllerRef)

\* Lines 365-368: what onFocus sets isOpen to, if anything, with the query
\* and the suggestions of the render it closes over.
FocusOpens == Len(Trim(query)) >= 2 /\ Len(suggestions) > 0

\* Lines 259-266, 444-446, 336-341 and 130: selectSuggestion(book) sets the
\* state and calls onSelect, which navigates to /book; that unmounts the
\* instance and runs the cleanups of its effects.  The focus() call of line
\* 265 runs onFocus when the input is not focused, which is the case after
\* the mousedown of a click on an entry: its setIsOpen(true) comes after the
\* setIsOpen(false) of line 262.
SelectSuggestion(book) ==
    /\ query' = book.title
    /\ suggestions' = <<>>
    /\ isOpen' = (~isFocused /\ FocusOpens)
    /\ isFocused' = TRUE
    /\ activeIndex' = -1
    /\ onSelectCalls' = onSelectCalls + 1
    /\ location' = [pathname |-> "/book", state |-> [book |-> book]]
    /\ UnmountCleanup
    /\ twTimeout' = Null
    /\ UNCHANGED <<isLoading, displayPlaceholder, isTyping,
                   abortControllerRef, debounceTimerRef, searchCache, instance,
                   inputCount, nextRequestId, lastInput, lastFetch, successes,
                   lastScored>>
    /\ UNCHANGED <<tmVars, bdVars>>

\* Line 403: a click on suggestion i of the list, which is rendered only
\* while the dropdown is open.
ClickSuggestion(i) ==
    /\ Mounted
    /\ isOpen
    /\ i \in 1..Len(suggestions)
    /\ lastKey' = NoKey
    /\ SelectSuggestion(suggestions[i])

\* Keys a keydown event of the input can carry; "a" stands for the keys
\* that no case of the switch names.
Keys == {"ArrowDown", "ArrowUp", "Enter", "Tab", "Escape", "a"}

ArrowDownIndexNoWrap(prev, n) ==
    IF prev < n - 1 THEN prev + 1 ELSE prev

\* Lines 276-279: the updater of ArrowDown, n = suggestions.length.
ArrowDownIndex(prev, n) ==
    IF prev < n - 1 THEN prev + 1 ELSE 0

\* Lines 283-286: the updater of ArrowUp.
ArrowUpIndex(prev, n) ==
    IF prev > 0 THEN prev - 1 ELSE n - 1

\* Line 291: activeIndex names an entry of suggestions (0-based).
ValidIndex(index, n) == index >= 0 /\ index < n

\* The state the keydown handler leaves alone whatever the key.
KeyDownUnchanged ==
    UNCHANGED <<isLoading, displayPlaceholder, isTyping,
                abortControllerRef, debounceTimerRef, searchCache, instance,
                inputCount, nextRequestId, lastInput, lastFetch, successes,
                lastScored, tmVars, bdVars>>

\* Lines 271-302: onKeyDown of the input.
HandleKeyDown(key) ==
    /\ Mounted
    /\ isFocused
    /\ lastKey' = key
    /\ IF ~isOpen \/ Len(suggestions) = 0
       THEN /\ UNCHANGED <<query, suggestions, isOpen, activeIndex,
                           onSelectCalls, location, timers, requests>>
            /\ UNCHANGED isFocused
            /\ KeyDownUnchanged
            /\ RunTypewriterEffect
       ELSE IF key \in {"Enter", "Tab"}
                 /\ ValidIndex(activeIndex, Len(suggestions))
       THEN SelectSuggestion(suggestions[activeIndex + 1])
       ELSE /\ activeIndex' =
                  CASE key = "ArrowDown" ->
                         ArrowDownIndex(activeIndex, Len(suggestions))
                    [] key = "ArrowUp" ->
                         ArrowUpIndex(activeIndex, Len(suggestions))
                    [] key = "Escape" -> -1
                    [] OTHER -> activeIndex
            /\ isOpen' = IF key = "Escape" THEN FALSE ELSE isOpen
            /\ UNCHANGED <<query, suggestions, onSelectCalls, location,
                           timers, requests>>
            /\ UNCHANGED isFocused
            /\ KeyDownUnchanged
            /\ RunTypewriterEffect

\* Line 405: onMouseEnter of entry i of the list, which is rendered only
\* while the dropdown is open.
HandleMouseEnter(i) ==
    /\ Mounted
    /\ isOpen
    /\ i \in 1..Len(suggestions)
    /\ activeIndex' = i - 1
    /\ lastKey' = NoKey
    /\ UNCHANGED <<query, suggestions, isOpen, onSelectCalls, location,
                   timers, requests>>
    /\ UNCHANGED isFocused
    /\ KeyDownUnchanged
    /\ RunTypewriterEffect

\* Lines 307-321: a mousedown outside the input and the list; listRef is
\* set only while the list is rendered.
HandleClickOutside ==
    /\ Mounted
    /\ isOpen
    /\ isOpen' = FALSE
    /\ lastKey' = NoKey
    /\ UNCHANGED <<query, suggestions, activeIndex, onSelectCalls, location,
                   timers, requests>>
    /\ UNCHANGED isFocused
    /\ KeyDownUnchanged
    /\ RunTypewriterEffect

\* main.jsx lines 12-16 and lines 78-93: navigate('/') renders App, which
\* mounts a new instance of BookAutocomplete.
NavigateHome ==
    /\ location' = HomeLocation
    /\ instance' = instance + 1
    /\ query' = <<>>
    /\ suggestions' = <<>>
    /\ isLoading' = FALSE
    /\ isOpen' = FALSE
    /\ activeIndex' = -1
    /\ isFocused' = FALSE
    /\ displayPlaceholder' = <<>>
    /\ isTyping' = TRUE
    /\ abortControllerRef' = 0
    /\ debounceTimerRef' = 0
    /\ UNCHANGED <<searchCache, timers, requests, inputCount, nextRequestId,
                   lastInput, lastFetch, successes>>
    /\ lastKey' = NoKey
    /\ UNCHANGED <<onSelectCalls, lastScored>>
    /\ UNCHANGED <<tmVars, bdVars>>
    /\ RunTypewriterEffect

\* AudioPlayer.jsx line 403: the Back button of BookDetails navigates to the
\* home route.
BackHome ==
    /\ location.pathname = "/book"
    /\ instance < MaxMounts
    /\ NavigateHome

(***************************************************************************)
(* Router and BookDetails.handleSummary                                    *)
(***************************************************************************)

\* Books that can be carried in the route state of /book.
RouteBooks ==
    { [key |-> "/works/OL1W", title |-> <<"a","b">>, authors |-> <<"Ann">>],
      [key |-> "/works/OL2W", title |-> <<"B","a"," ","a">>, authors |-> <<>>] }

\* useState initial values of BookDetails, no handleSummary running.
BookDetailsInit ==
    /\ isSearching = FALSE
    /\ searchStep = <<"">>
    /\ downloadError = Null
    /\ hsPc = "idle"
    /\ pdfData = Null
    /\ chapterData = Null
    /\ scriptData = Null
    /\ hsCalls = <<>>
    /\ hsResponses = <<>>
    /\ hsRuns = 0

Endpoints == <<"find-pdf", "extract-chapter", "generate-script">>

\* new URLSearchParams({title: book.title, author: book.authors || ''});
\* authors is a joined list of names, the empty list standing for ''.
Params(book) == [title |-> book.title, author |-> book.authors]

FetchCall(endpoint, book) ==
    [url |-> endpoint, method |-> "POST", params |-> Params(book)]

PdfBodies == { [cached |-> TRUE, pages |-> 1], [cached |-> FALSE, pages |-> 2] }
ChapterBodies ==
    { [cached |-> TRUE, start_page |-> 1, end_page |-> 2],
      [cached |-> FALSE, start_page |-> 1, end_page |-> 2] }
ScriptBodies == { [script |-> "Naval: hi", naval_lines |-> 1, chris_lines |-> 0] }
\* The message of the error that the catch block receives for a response
\* that did not succeed; fallback is the step's default message.
ErrorMessage(r, fallback) ==
    IF r.kind = "reject" THEN "Failed to fetch"
    ELSE IF ~r.json THEN "Unexpected token < in JSON"
    ELSE IF Get(r.body, "detail") \notin {"", "undefined"} THEN r.body.detail
    ELSE fallback

\* The ok check that lets every response through.
ProceedsAlways(r) == r.kind = "response" /\ r.json

\* Lines 288-293 (and 311-316, 332-337): the code goes on to the next step.
Proceeds(r) == Succeeded(r)

\* The catch block that leaves the loading screen up.
CatchBlockStuck(message) ==
    /\ downloadError' = [message |-> message]
    /\ isSearching' = isSearching
    /\ hsPc' = "idle"

\* Lines 351-355: catch (error) { setDownloadError; setIsSearching(false) }
\* downloadError is Null or [message |-> the string].
CatchBlock(message) ==
    /\ downloadError' = [message |-> message]
    /\ isSearching' = FALSE
    /\ hsPc' = "idle"

MaxRuns == 2

\* The promise that handleSummary awaits settles with r: the fetch rejects,
\* or the json() of the response that arrived settles.
SettlesAt(r, fetchPc, okPc, errorPc) ==
    \/ hsPc = fetchPc /\ r.kind = "reject"
    \/ hsPc = okPc /\ r.kind = "response" /\ r.ok
    \/ hsPc = errorPc /\ r.kind = "response" /\ ~r.ok

\* The "First Chapter" button is rendered only with a book and while
\* isSearching is false (lines 226, 363, 451).
SummaryButtonShown ==
    /\ location.pathname = "/book"
    /\ location.state # Null
    /\ ~isSearching

\* onClick={handleSummary}: lines 271-286, up to the first await.
HandleSummary ==
    /\ SummaryButtonShown
    /\ hsPc = "idle"
    /\ hsRuns < MaxRuns
    /\ hsRuns' = hsRuns + 1
    /\ isSearching' = TRUE
    /\ downloadError' = Null
    /\ searchStep' = <<"Searching for book PDF...">>
    /\ hsCalls' = <<FetchCall(Endpoints[1], location.state.book)>>
    /\ hsResponses' = <<>>
    /\ pdfData' = Null
    /\ chapterData' = Null
    /\ scriptData' = Null
    /\ hsPc' = "awaitPdf"
    /\ UNCHANGED location
    /\ UNCHANGED nonBdVars

\* Lines 284-293: the fetch resolves with a response, and handleSummary awaits
\* its json(), on the error path if the response is not OK.
PdfFetchResolves(ok) ==
    /\ hsPc = "awaitPdf"
    /\ hsPc' = IF ok THEN "jsonPdf" ELSE "errorPdf"
    /\ UNCHANGED <<location, isSearching, searchStep, downloadError, pdfData,
                   chapterData, scriptData, hsCalls, hsResponses, hsRuns>>
    /\ UNCHANGED nonBdVars

\* The find-pdf request settles: fetch rejects (line 284), or the json() of
\* its response settles (lines 289, 293): lines 288-300.
PdfResponse(r) ==
    /\ SettlesAt(r, "awaitPdf", "jsonPdf", "errorPdf")
    /\ hsResponses' = Append(hsResponses, r)
    /\ IF Proceeds(r)
       THEN /\ pdfData' = r.body
            /\ searchStep' = IF IsSet(r.body, "cached")
                             THEN <<"Book found in library!">>
                             ELSE <<"Downloaded book (", Get(r.body, "pages"), " pages)">>
            /\ hsPc' = "pausePdf"
            /\ UNCHANGED <<isSearching, downloadError>>
       ELSE /\ CatchBlock(ErrorMessage(r, "Failed to find book"))
            /\ UNCHANGED <<pdfData, searchStep>>
    /\ UNCHANGED <<location, chapterData, scriptData, hsCalls, hsRuns>>
    /\ UNCHANGED nonBdVars

\* The 500 ms pause ends: line 303.
PdfPauseDone ==
    /\ hsPc = "pausePdf"
    /\ searchStep' = <<"Analyzing book structure with AI...">>
    /\ hsPc' = "pauseAnalyze"
    /\ UNCHANGED <<location, isSearching, downloadError, pdfData, chapterData,
                   scriptData, hsCalls, hsResponses, hsRuns>>
    /\ UNCHANGED nonBdVars

\* The 300 ms pause ends: lines 305-309, the extract-chapter fetch.
AnalyzePauseDone ==
    /\ hsPc = "pauseAnalyze"
    /\ searchStep' = <<"Identifying Chapter 1 boundaries...">>
    /\ hsCalls' = Append(hsCalls, FetchCall(Endpoints[2], location.state.book))
    /\ hsPc' = "awaitChapter"
    /\ UNCHANGED <<location, isSearching, downloadError, pdfData, chapterData,
                   scriptData, hsResponses, hsRuns>>
    /\ UNCHANGED nonBdVars

\* Lines 307-316: the fetch resolves with a response, and handleSummary awaits
\* its json(), on the error path if the response is not OK.
ChapterFetchResolves(ok) ==
    /\ hsPc = "awaitChapter"
    /\ hsPc' = IF ok THEN "jsonChapter" ELSE "errorChapter"
    /\ UNCHANGED <<location, isSearching, searchStep, downloadError, pdfData,
                   chapterData, scriptData, hsCalls, hsResponses, hsRuns>>
    /\ UNCHANGED nonBdVars

\* The extract-chapter request settles, in the same way: lines 311-323.
ChapterResponse(r) ==
    /\ SettlesAt(r, "awaitChapter", "jsonChapter", "errorChapter")
    /\ hsResponses' = Append(hsResponses, r)
    /\ IF Proceeds(r)
       THEN /\ chapterData' = r.body
            /\ searchStep' = IF IsSet(r.body, "cached")
                             THEN <<"Chapter 1 ready!">>
                             ELSE <<"Extracted Chapter 1: pages ",
                                    Get(r.body, "start_page"), "-",
                                    Get(r.body, "end_page")>>
            /\ hsPc' = "pauseChapter"
            /\ UNCHANGED <<isSearching, downloadError>>
       ELSE /\ CatchBlock(ErrorMessage(r, "Failed to extract chapter"))
            /\ UNCHANGED <<chapterData, searchStep>>
    /\ UNCHANGED <<location, pdfData, scriptData, hsCalls, hsRuns>>
    /\ UNCHANGED nonBdVars

\* The 500 ms pause ends: lines 326-330, the generate-script fetch.
ChapterPauseDone ==
    /\ hsPc = "pauseChapter"
    /\ searchStep' = <<"Writing podcast script with AI...">>
    /\ hsCalls' = Append(hsCalls, FetchCall(Endpoints[3], location.state.book))
    /\ hsPc' = "awaitScript"
    /\ UNCHANGED <<location, isSearching, downloadError, pdfData, chapterData,
                   scriptData, hsResponses, hsRuns>>
    /\ UNCHANGED nonBdVars

\* Lines 328-337: the fetch resolves with a response, and handleSummary awaits
\* its json(), on the error path if the response is not OK.
ScriptFetchResolves(ok) ==
    /\ hsPc = "awaitScript"
    /\ hsPc' = IF ok THEN "jsonScript" ELSE "errorScript"
    /\ UNCHANGED <<location, isSearching, searchStep, downloadError, pdfData,
                   chapterData, scriptData, hsCalls, hsResponses, hsRuns>>
    /\ UNCHANGED nonBdVars

\* The generate-script request settles, in the same way: lines 332-339.
ScriptResponse(r) ==
    /\ SettlesAt(r, "awaitScript", "jsonScript", "errorScript")
    /\ hsResponses' = Append(hsResponses, r)
    /\ IF Proceeds(r)
       THEN /\ scriptData' = r.body
            /\ searchStep' = <<"Podcast script ready!">>
            /\ hsPc' = "pauseScript"
            /\ UNCHANGED <<isSearching, downloadError>>
       ELSE /\ CatchBlock(ErrorMessage(r, "Failed to generate script"))
            /\ UNCHANGED <<scriptData, searchStep>>
    /\ UNCHANGED <<location, pdfData, chapterData, hsCalls, hsRuns>>
    /\ UNCHANGED nonBdVars

\* The last 500 ms pause ends: lines 341-349, navigate('/player', ...).
ScriptPauseDone ==
    /\ hsPc = "pauseScript"
    /\ location' = [pathname |-> "/player",
                    state |-> [book |-> location.state.book,
                               pdfInfo |-> pdfData,
                               chapterInfo |-> chapterData,
                               scriptInfo |-> scriptData]]
    /\ hsPc' = "idle"
    /\ UNCHANGED <<isSearching, searchStep, downloadError, pdfData,
                   chapterData, scriptData, hsCalls, hsResponses, hsRuns>>
    /\ UNCHANGED nonBdVars

\* AudioPlayer.jsx line 83: the Back button of AudioPlayer, navigate(-1).
\* /player is entered with a book only by the navigate of line 342, which
\* pushes it on top of the /book entry of that book; BookDetails mounts anew.
PlayerBack ==
    /\ location.pathname = "/player"
    /\ location.state # Null
    /\ hsPc = "idle"
    /\ location' = [pathname |-> "/book",
                    state |-> [book |-> location.state.book]]
    /\ isSearching' = FALSE
    /\ searchStep' = <<"">>
    /\ downloadError' = Null
    /\ UNCHANGED <<hsPc, pdfData, chapterData, scriptData, hsCalls,
                   hsResponses, hsRuns>>
    /\ UNCHANGED nonBdVars

InitPipeline ==
    /\ tmTitle = <<>>
    /\ tmQuery = <<>>
    /\ tmResult = <<>>
    /\ location \in { [pathname |-> "/book", state |-> [book |-> b]] : b \in RouteBooks }
    /\ BookDetailsInit
    /\ AutocompleteInit

NextPipeline ==
    \/ HandleSummary
    \/ \E ok \in BOOLEAN : PdfFetchResolves(ok)
    \/ \E r \in ResponsesWith(PdfBodies) : PdfResponse(r)
    \/ PdfPauseDone
    \/ AnalyzePauseDone
    \/ \E ok \in BOOLEAN : ChapterFetchResolves(ok)
    \/ \E r \in ResponsesWith(ChapterBodies) : ChapterResponse(r)
    \/ ChapterPauseDone
    \/ \E ok \in BOOLEAN : ScriptFetchResolves(ok)
    \/ \E r \in ResponsesWith(ScriptBodies) : ScriptResponse(r)
    \/ ScriptPauseDone
    \/ PlayerBack

SpecPipeline == InitPipeline /\ [][NextPipeline]_vars

(***************************************************************************)
(* BookDetails and AudioPlayer without a book                              *)
(***************************************************************************)

\* AudioPlayer.jsx lines 11 and 222: the book the page reads from the route
\* state, <<>> if there is none.
RouteBook ==
    IF location.state # Null /\ "book" \in DOMAIN location.state
    THEN <<location.state.book>> ELSE <<>>

\* AudioPlayer.jsx lines 15 and 226: !book on /player and on /book.
NoBookView ==
    /\ location.pathname \in {"/book", "/player"}
    /\ RouteBook = <<>>

\* AudioPlayer.jsx lines 16-25 and 227-236, else the page with the book:
\* what the route renders.
PageView ==
    IF location.pathname = "/" THEN [page |-> "App", book |-> <<>>]
    ELSE IF NoBookView
    THEN [page |-> "No book selected", book |-> <<>>]
    ELSE [page |-> location.pathname, book |-> RouteBook]

\* AudioPlayer.jsx lines 19-21 and 230-232: a click on "Go Back Home".
GoBackHome ==
    /\ NoBookView
    /\ NavigateHome

\* The locations a page load can start at: /book and /player opened by
\* their URL carry no route state.
EntryLocations ==
    { [pathname |-> p, state |-> Null] : p \in {"/book", "/player"} }
    \cup { [pathname |-> "/book", state |-> [book |-> b]] : b \in RouteBooks }

InitPages ==
    /\ tmTitle = <<>>
    /\ tmQuery = <<>>
    /\ tmResult = <<>>
    /\ location \in EntryLocations
    /\ BookDetailsInit
    /\ AutocompleteInit

NextPages ==
    \/ NextPipeline
    \/ GoBackHome

\* The timeouts of handleSummary fire and its fetches settle; no click of
\* the user is bound to happen.
PagesFairness ==
    /\ WF_vars(PdfPauseDone \/ AnalyzePauseDone \/ ChapterPauseDone
                \/ ScriptPauseDone)
    /\ WF_vars(\E ok \in BOOLEAN : PdfFetchResolves(ok)
                                    \/ ChapterFetchResolves(ok)
                                    \/ ScriptFetchResolves(ok))
    /\ WF_vars(\E r \in ResponsesWith(PdfBodies) : PdfResponse(r))
    /\ WF_vars(\E r \in ResponsesWith(ChapterBodies) : ChapterResponse(r))
    /\ WF_vars(\E r \in ResponsesWith(ScriptBodies) : ScriptResponse(r))

SpecPages == InitPages /\ [][NextPages]_vars /\ PagesFairness

\* C12: when /book or /player is rendered without a book, the application
\* navigates to the home route, shows no book content and calls no backend
\* endpoint.
C12_RedirectsHome ==
    /\ [](NoBookView => <>(location.pathname = "/"))
    /\ [](NoBookView => PageView.book = <<>>)
    /\ [][NoBookView => hsCalls' = hsCalls]_vars

AllSucceeded(responses) ==
    \A i \in 1..Len(responses) : Succeeded(responses[i])

\* C5: the pipeline calls find-pdf, extract-chapter, generate-script in this
\* order, each request only after the previous one returned a successful
\* response, and navigates to /player only after all three succeeded, with
\* the book and the three response bodies in the route state.
C5_PipelineOrder ==
    /\ Len(hsCalls) <= 3
    /\ \A i \in 1..Len(hsCalls) :
          /\ hsCalls[i].url = Endpoints[i]
          /\ i > 1 => /\ Len(hsResponses) >= i - 1
                      /\ Succeeded(hsResponses[i - 1])
    /\ location.pathname = "/player" =>
          /\ Len(hsCalls) = 3
          /\ Len(hsResponses) = 3
          /\ AllSucceeded(hsResponses)
          /\ Params(location.state.book) = hsCalls[1].params
          /\ location.state.pdfInfo = hsResponses[1].body
          /\ location.state.chapterInfo = hsResponses[2].body
          /\ location.state.scriptInfo = hsResponses[3].body

\* All three requests succeeded and the player page is shown.
C5_Witness ==
    /\ location.pathname = "/player"
    /\ Len(hsCalls) = 3
    /\ location.state.pdfInfo \in PdfBodies

FallbackMessage(n) ==
    CASE n = 1 -> "Failed to find book"
      [] n = 2 -> "Failed to extract chapter"
      [] OTHER -> "Failed to generate script"

\* A step in which one of the three requests settles without success.
RequestFails ==
    /\ Len(hsResponses') = Len(hsResponses) + 1
    /\ ~Succeeded(hsResponses'[Len(hsResponses')])

\* C6: when one of the three requests fails, no later endpoint is called,
\* there is no navigation, downloadError is the error's message, isSearching
\* becomes false (the details view with the error is shown again), and only
\* a new click starts requests again.
C6_FailureStops ==
    [][ /\ RequestFails =>
            /\ hsCalls' = hsCalls
            /\ location' = location
            /\ downloadError' =
                 [message |-> ErrorMessage(hsResponses'[Len(hsResponses')],
                                           FallbackMessage(Len(hsResponses')))]
            /\ isSearching' = FALSE
            /\ hsPc' = "idle"
        /\ (downloadError # Null /\ hsPc = "idle") =>
            /\ location' = location
            /\ hsCalls' # hsCalls => (SummaryButtonShown /\ hsRuns' = hsRuns + 1)
      ]_vars

\* The second request failed: the details view shows the error.
C6_Witness ==
    /\ hsPc = "idle"
    /\ downloadError = [message |-> "Book not found"]
    /\ ~isSearching
    /\ Len(hsCalls) = 2
    /\ Len(hsResponses) = 2

(***************************************************************************)
(* The search widget on the home page                                      *)
(***************************************************************************)

Init ==
    /\ tmTitle = <<>>
    /\ tmQuery = <<>>
    /\ tmResult = <<>>
    /\ location = HomeLocation
    /\ BookDetailsInit
    /\ AutocompleteInit

Next ==
    \/ \E value \in InputValues : HandleInputChange(value)
    \/ \E t \in timers : DebounceFire(t)
    \/ \E r \in requests : FetchResolves(r)
    \/ \E r \in requests, response \in ResponsesWith(SearchBodies) :
          RespondOk(r, response)
    \/ \E r \in requests, response \in ResponsesWith(SearchBodies) :
          RespondError(r, response)
    \/ \E r \in requests : AbortSettle(r)
    \/ HandleFocus
    \/ HandleBlur
    \/ \E i \in 1..Len(suggestions) : ClickSuggestion(i)
    \/ BackHome

Spec == Init /\ [][Next]_vars

\* The request r settles in this step: its fetchBooks call runs to the end.
Settles(r) == \A r2 \in requests' : r2.id # r.id

\* The search widget with the keyboard and mouse handlers of the dropdown.
NextKeyboard ==
    \/ Next
    \/ \E key \in Keys : HandleKeyDown(key)
    \/ \E i \in 1..Len(suggestions) : HandleMouseEnter(i)
    \/ HandleClickOutside

SpecKeyboard == Init /\ [][NextKeyboard]_vars

\* The search widget with responses of more than six relevant titles.
NextRanking ==
    \/ Next
    \/ \E r \in requests, response \in ResponsesWith(SearchBodiesMany) :
          RespondOk(r, response)

SpecRanking == Init /\ [][NextRanking]_vars

\* The list is a ranked result list: at most six entries, in order of
\* non-increasing score, with pairwise distinct normalized titles, each
\* entry relevant by its title or popular.
C14_Ranked(list) ==
    /\ Len(list) <= 6
    /\ \A i \in 1..(Len(list) - 1) : list[i].score >= list[i + 1].score
    /\ \A i, j \in 1..Len(list) :
          i # j => NormalizeTitle(list[i].title) # NormalizeTitle(list[j].title)
    /\ \A i \in 1..Len(list) :
          list[i].titleScore >= 20 \/ list[i].editionCount > 50

\* Every entry of the list has the highest score among the results of the
\* ranking that share its normalized title.
C14_KeptHighest(list, results) ==
    \A i \in 1..Len(list), j \in 1..Len(results) :
        NormalizeTitle(results[j].title) = NormalizeTitle(list[i].title)
            => results[j].score <= list[i].score

\* C14: in every reachable state suggestions holds at most six entries,
\* ordered by non-increasing combined score, with pairwise distinct
\* normalized titles, each with titleScore >= 20 or editionCount > 50; and
\* when a ranking completes, the entry it keeps of each normalized title is
\* the highest-scoring of the relevant results that share that title.
C14_RankedSuggestions ==
    /\ [](C14_Ranked(suggestions)
           /\ \A k \in DOMAIN searchCache : C14_Ranked(searchCache[k]))
    /\ [][ successes' # successes =>
              \E r \in requests :
                  /\ Settles(r)
                  /\ r.cacheKey \in DOMAIN searchCache'
                  /\ C14_KeptHighest(searchCache'[r.cacheKey], lastScored')
                  /\ Live(r) => suggestions' = searchCache'[r.cacheKey]
      ]_vars

\* Six suggestions are shown of a ranking that had more relevant results,
\* among them several of one normalized title.
C14_Witness ==
    /\ Mounted
    /\ isOpen
    /\ Len(suggestions) = 6
    /\ Len(lastScored) > 7
    /\ \E i, j \in 1..Len(lastScored) :
          /\ i < j
          /\ NormalizeTitle(lastScored[i].title)
                = NormalizeTitle(lastScored[j].title)
          /\ lastScored[i].score < lastScored[j].score

\* C11: while the dropdown is open with n > 0 suggestions, ArrowDown moves
\* activeIndex to activeIndex + 1 if activeIndex < n - 1 and to 0 otherwise,
\* ArrowUp moves it to activeIndex - 1 if activeIndex > 0 and to n - 1
\* otherwise, and Escape closes the dropdown and sets activeIndex to -1;
\* while the dropdown is closed or suggestions is empty, no key changes
\* activeIndex, isOpen, query or suggestions.
C11_KeyboardNavigation ==
    [][ lastKey' # NoKey =>
          LET n == Len(suggestions)
          IN  IF isOpen /\ n > 0
              THEN /\ lastKey' = "ArrowDown" =>
                        /\ activeIndex' = IF activeIndex < n - 1
                                          THEN activeIndex + 1 ELSE 0
                        /\ UNCHANGED <<isOpen, query, suggestions>>
                   /\ lastKey' = "ArrowUp" =>
                        /\ activeIndex' = IF activeIndex > 0
                                          THEN activeIndex - 1 ELSE n - 1
                        /\ UNCHANGED <<isOpen, query, suggestions>>
                   /\ lastKey' = "Escape" =>
                        /\ ~isOpen'
                        /\ activeIndex' = -1
                        /\ UNCHANGED <<query, suggestions>>
              ELSE UNCHANGED <<activeIndex, isOpen, query, suggestions>>
      ]_vars

\* ArrowDown has wrapped from the last of at least two entries to the first.
C11_Witness ==
    /\ Mounted
    /\ isOpen
    /\ lastKey = "ArrowDown"
    /\ Len(suggestions) >= 2
    /\ activeIndex = 0

\* A key had no effect because the dropdown was closed.
C11_WitnessClosed ==
    /\ Mounted
    /\ ~isOpen
    /\ lastKey = "ArrowDown"
    /\ Len(suggestions) > 0
    /\ activeIndex = -1

\* The postcondition of a selection of book in this step.
C13_Selected(book) ==
    /\ query' = book.title
    /\ suggestions' = <<>>
    /\ ~isOpen'
    /\ activeIndex' = -1
    /\ onSelectCalls' = onSelectCalls + 1
    /\ location' = [pathname |-> "/book", state |-> [book |-> book]]

\* C13: a selection, by a click on an entry or by Enter or Tab while the
\* dropdown is open and activeIndex names an entry, sets query to the title
\* of the book, empties suggestions, closes the dropdown, sets activeIndex
\* to -1 and calls onSelect exactly once, which navigates to /book with
\* exactly that book in the route state; Enter or Tab with activeIndex -1
\* or out of range calls onSelect zero times and selects nothing; nothing
\* else navigates to /book or calls onSelect.
C13_Selection ==
    [][ LET n == Len(suggestions)
            byKey == lastKey' \in {"Enter", "Tab"}
        IN  /\ byKey =>
                 IF isOpen /\ activeIndex >= 0 /\ activeIndex < n
                 THEN C13_Selected(suggestions[activeIndex + 1])
                 ELSE UNCHANGED <<onSelectCalls, location, query,
                                  suggestions, isOpen, activeIndex>>
            /\ (~byKey /\ onSelectCalls' # onSelectCalls) =>
                 /\ isOpen
                 /\ \E i \in 1..n : C13_Selected(suggestions[i])
            /\ (location' # location /\ location'.pathname = "/book") =>
                 onSelectCalls' = onSelectCalls + 1
      ]_vars


\* C1: at most one search request that has not been aborted is in flight.
C1_SingleFlight ==
    Cardinality({r \in requests : ~r.aborted}) <= 1

\* Two requests are in flight, the earlier one aborted by the later
\* fetchBooks call.
C1_Witness ==
    \E r1, r2 \in requests :
        /\ r1.id < r2.id
        /\ r1.aborted
        /\ ~r2.aborted
        /\ abortControllerRef = r2.id

\* C2: once fetchBooks has been invoked for a newer query, the response to a
\* request issued for an older query never updates suggestions, never opens
\* the dropdown and never writes the cache, whether the newer invocation
\* issued a request or was answered from the cache.
C2_CancelOnSupersede ==
    [][ \A r \in requests :
            (Settles(r) /\ lastFetch # Null /\ r.by < lastFetch.id) =>
                /\ suggestions' = suggestions
                /\ isOpen' = isOpen
                /\ searchCache' = searchCache
      ]_vars

\* C3: every input change cancels the debounce timer of the previous input
\* change, at most one debounce timer is pending, and fetchBooks is invoked
\* only by a firing timer, with the value of the most recent input change.
C3_Debounce ==
    /\ [](Cardinality(timers) <= 1)
    /\ [][ /\ inputCount' # inputCount =>
               \A t \in timers : t \notin timers'
           /\ lastFetch' # lastFetch =>
               /\ lastFetch' \in timers
               /\ lastFetch' \notin timers'
               /\ lastInput # Null
               /\ lastFetch'.id = lastInput.id
               /\ lastFetch'.value = lastInput.value
         ]_vars

\* The second input change replaced the first before its timer fired, and
\* only the second value was searched.
C3_Witness ==
    /\ lastFetch # Null
    /\ lastFetch.id = 2
    /\ lastInput.id = 2
    /\ nextRequestId = 2
    /\ \E r \in requests : r.by = 2 /\ r.cleanQuery = Trim(lastInput.value)

\* C4: fetchBooks with a query whose normalized form is a cache key issues no
\* request, sets suggestions to the cached list, clears isLoading and opens
\* the dropdown; a key enters the cache only with a request that completed
\* successfully, and per key at most one request ever completes successfully.
C4_Cache ==
    /\ [](\A s1, s2 \in successes : s1.cacheKey = s2.cacheKey => s1 = s2)
    /\ [][ /\ ( /\ lastFetch' # lastFetch
                /\ ToLowerCase(Trim(lastFetch'.value)) \in DOMAIN searchCache ) =>
               /\ requests' = requests
               /\ nextRequestId' = nextRequestId
               /\ suggestions' = searchCache[ToLowerCase(Trim(lastFetch'.value))]
               /\ ~isLoading'
               /\ isOpen'
           /\ \A k \in (DOMAIN searchCache') \ (DOMAIN searchCache) :
               \E r \in requests :
                   /\ Settles(r)
                   /\ ~r.aborted
                   /\ r.cacheKey = k
                   /\ \E s \in successes' \ successes : s.id = r.id
         ]_vars

\* A later fetchBooks call was answered from the cache entry that an earlier
\* request had written.
C4_Witness ==
    /\ lastFetch # Null
    /\ \E s \in successes :
          /\ s.cacheKey = ToLowerCase(Trim(lastFetch.value))
          /\ s.by < lastFetch.id
    /\ nextRequestId = 2
    /\ requests = {}
    /\ isOpen
    /\ ~isLoading

\* C7: an input change whose trimmed value has fewer than 2 characters
\* cancels the pending debounce timer, starts no timer and no request, and
\* sets suggestions empty, the dropdown closed and isLoading false; fetchBooks
\* is never invoked with a query of trimmed length below 2.
C7_MinLength ==
    /\ [](lastFetch # Null => Len(Trim(lastFetch.value)) >= 2)
    /\ [][ (inputCount' # inputCount /\ Len(Trim(lastInput'.value)) < 2) =>
               /\ timers' = {}
               /\ requests' = requests
               /\ nextRequestId' = nextRequestId
               /\ suggestions' = <<>>
               /\ ~isOpen'
               /\ ~isLoading'
         ]_vars

\* A one-letter value followed by a blank was typed after a search had shown
\* results: no timer is pending and the dropdown is reset.
C7_Witness ==
    /\ lastInput # Null
    /\ lastInput.value = <<"a", " ">>
    /\ query = lastInput.value
    /\ successes # {}
    /\ timers = {}
    /\ suggestions = <<>>
    /\ ~isOpen

\* C15: a request that fails without having been aborted (the response is
\* not OK, fetch rejects, or the ranking throws) sets suggestions empty and
\* isLoading false and writes nothing to searchCache, so that its key is not
\* cached and a later fetchBooks call for that key issues a new request; an
\* aborted request that settles leaves suggestions, isOpen and searchCache
\* unchanged.
C15_FailureHandling ==
    [][ /\ \A r \in requests :
              Settles(r) =>
                  IF r.aborted
                  THEN UNCHANGED <<suggestions, isOpen, searchCache>>
                  ELSE successes' = successes =>
                           /\ suggestions' = <<>>
                           /\ ~isLoading'
                           /\ searchCache' = searchCache
                           /\ r.cacheKey \notin DOMAIN searchCache'
        /\ ( /\ lastFetch' # lastFetch
             /\ ToLowerCase(Trim(lastFetch'.value)) \notin DOMAIN searchCache ) =>
                 /\ nextRequestId' = nextRequestId + 1
                 /\ \E r \in requests' \ requests :
                       /\ ~r.aborted
                       /\ r.cacheKey = ToLowerCase(Trim(lastFetch'.value))
      ]_vars

\* After a first request failed while results of an earlier search were
\* shown, a second request was issued for the same key.
C15_Witness ==
    /\ Mounted
    /\ instance = 1
    /\ successes = {}
    /\ suggestions = <<>>
    /\ nextRequestId = 3
    /\ \E r \in requests :
          /\ r.id = 2
          /\ ~r.aborted
          /\ lastFetch # Null
          /\ r.cacheKey = ToLowerCase(Trim(lastFetch.value))
          /\ r.cacheKey \notin DOMAIN searchCache
    /\ Cardinality(requests) = 1

\* An item of an instance that is no longer mounted.
C16_Unmounted(x) == ~(Mounted /\ x.inst = instance)

\* C16: once an instance is unmounted, none of its debounce timers is
\* pending and each of its requests still in flight is aborted; so no step
\* issues a request for an unmounted instance, and while no instance is
\* mounted no request is issued and searchCache is not written.
C16_UnmountCleanup ==
    /\ [](\A t \in timers : ~C16_Unmounted(t))
    /\ [](\A r \in requests : C16_Unmounted(r) => r.aborted)
    /\ [][ /\ \A r \in requests' :
                  (\A r0 \in requests : r0.id # r.id) => ~C16_Unmounted(r)
           /\ ~Mounted => /\ nextRequestId' = nextRequestId
                          /\ searchCache' = searchCache
           /\ searchCache' # searchCache =>
                  \E r \in requests :
                      Settles(r) /\ ~r.aborted /\ ~C16_Unmounted(r)
         ]_vars

\* The instance was unmounted while its latest request was in flight: the
\* request is aborted and no timer is pending.
C16_Witness ==
    /\ ~Mounted
    /\ nextRequestId = 3
    /\ timers = {}
    /\ \E s \in successes : s.id = 1
    /\ \E r \in requests : r.id = 2 /\ r.aborted /\ abortControllerRef = 2

\* C17: after an input change whose trimmed value has fewer than 2
\* characters, and until the next input change, suggestions is empty and
\* the dropdown is closed, whatever timer fires or request completes.
C17_ResetLasts ==
    (lastInput # Null /\ Len(Trim(lastInput.value)) < 2) =>
        (suggestions = <<>> /\ ~isOpen)

(***************************************************************************)
(* The typewriter placeholder                                              *)
(***************************************************************************)

\* The values typed while the animation is watched: empty, too short to
\* search, and two that are searched.
TypewriterInputs == { <<>>, <<"a"," ">>, <<"a","b">>, <<"b","a">> }

\* Every action of the search widget, with the input values above, and the
\* timeout of the typewriter effect.
NextTypewriter ==
    \/ \E value \in TypewriterInputs : HandleInputChange(value)
    \/ \E t \in timers : DebounceFire(t)
    \/ \E r \in requests : FetchResolves(r)
    \/ \E r \in requests, response \in ResponsesWith(SearchBodies) :
          RespondOk(r, response)
    \/ \E r \in requests, response \in ResponsesWith(SearchBodies) :
          RespondError(r, response)
    \/ \E r \in requests : AbortSettle(r)
    \/ HandleFocus
    \/ HandleBlur
    \/ \E i \in 1..Len(suggestions) : ClickSuggestion(i)
    \/ BackHome
    \/ TypewriterFire

\* The search widget together with the steps of the typewriter animation.
SpecTypewriter == Init /\ [][NextTypewriter]_vars

\* The user has typed something or the input is focused.
Engaged == query # <<>> \/ isFocused

\* C9: while query is non-empty or the input is focused, no step of the
\* mounted instance changes displayPlaceholder or isTyping, and no animation
\* timeout is pending.
C9_NoAnimationWhenEngaged ==
    /\ []((Mounted /\ Engaged) => twTimeout = Null)
    /\ [][ (Mounted /\ Mounted' /\ Engaged) =>
               UNCHANGED <<displayPlaceholder, isTyping>> ]_vars

\* The input was focused in the middle of the animation: the placeholder is
\* frozen at a proper prefix and the timeout is cleared.
C9_Witness ==
    /\ Mounted
    /\ isFocused
    /\ Len(displayPlaceholder) = 3
    /\ twTimeout = Null

NextTypewriterOnly ==
    \/ TypewriterFire
    \/ HandleFocus
    \/ HandleBlur
    \/ \E value \in InputValues : HandleInputChange(value)

\* The typewriter effect and the handlers that change its dependencies, with
\* timeouts that fire eventually while they stay pending.
SpecTypewriterFair ==
    Init /\ [][NextTypewriterOnly]_vars /\ WF_vars(TypewriterFire)

Idle == Mounted /\ query = <<>> /\ ~isFocused

IsTypewriterPrefix(s) ==
    Len(s) <= Len(TYPEWRITER_TEXT) /\ s = SubSeq(TYPEWRITER_TEXT, 1, Len(s))

\* One step of the cycle: type a character, pause at the full text, delete
\* a character, pause at the empty text.
CycleStep ==
    \/ /\ isTyping /\ isTyping'
       /\ Len(displayPlaceholder') = Len(displayPlaceholder) + 1
    \/ /\ isTyping /\ ~isTyping'
       /\ displayPlaceholder = TYPEWRITER_TEXT
       /\ displayPlaceholder' = displayPlaceholder
    \/ /\ ~isTyping /\ ~isTyping'
       /\ Len(displayPlaceholder') = Len(displayPlaceholder) - 1
    \/ /\ ~isTyping /\ isTyping'
       /\ displayPlaceholder = <<>>
       /\ displayPlaceholder' = displayPlaceholder

\* C10: displayPlaceholder is always a prefix of the typewriter text and
\* changes by one character per step, in the cycle type - pause - delete -
\* pause; if the input stays empty and unfocused from some point on, the full
\* text and the empty text are each reached infinitely often, in both phases.
C10_TypewriterCycle ==
    /\ [](IsTypewriterPrefix(displayPlaceholder))
    /\ [][ (displayPlaceholder' # displayPlaceholder \/ isTyping' # isTyping)
               => CycleStep ]_vars
    /\ (<>[]Idle) =>
          /\ []<>(displayPlaceholder = TYPEWRITER_TEXT /\ isTyping)
          /\ []<>(displayPlaceholder = TYPEWRITER_TEXT /\ ~isTyping)
          /\ []<>(displayPlaceholder = <<>> /\ ~isTyping)
          /\ []<>(displayPlaceholder = <<>> /\ isTyping)

\* The deleting phase has begun and has come down to one character.
C10_Witness ==
    /\ Idle
    /\ ~isTyping
    /\ Len(displayPlaceholder) = 1

(***************************************************************************)
(* Harness for calculateTitleMatch: inputs are drawn in the initial state, *)
(* one step applies the function.                                          *)
(***************************************************************************)

MaxTitleLen == 4
MaxQueryLen == 4

\* Longer inputs with two and three query words, where the word ratios are
\* proper fractions.
SampleQueries ==
    { <<"a","b"," ","b","a">>,
      <<"a","b"," ","b","a"," ","a","a">>,
      <<"a","a"," ","b","b"," ","a","b","a">>,
      <<"B","a","a"," ","a","b"," ","b","b">> }

SampleTitles ==
    { <<"b","a"," ","a"," ","a","b","b">>,
      <<"a","B"," ","b","a","b"," ","a">>,
      <<"b","b","a"," ","a","a","a">>,
      <<"a","b"," ","b","a"," ","b">> }

TitleInputs == StringsUpTo(MaxTitleLen) \cup SampleTitles \cup {Undefined}
QueryInputs == StringsUpTo(MaxQueryLen) \cup SampleQueries \cup {Undefined}

InitTitleMatch ==
    /\ tmTitle \in TitleInputs
    /\ tmQuery \in QueryInputs
    /\ tmResult = <<>>
    /\ location = HomeLocation
    /\ BookDetailsInit
    /\ AutocompleteInit

\* One call: tmResult receives the returned value.
ComputeTitleMatch ==
    /\ tmResult = <<>>
    /\ tmResult' = <<calculateTitleMatch(tmTitle, tmQuery)>>
    /\ UNCHANGED <<tmTitle, tmQuery, location>>
    /\ UNCHANGED <<bdVars, acVars>>

NextTitleMatch == ComputeTitleMatch

SpecTitleMatch == InitTitleMatch /\ [][NextTitleMatch]_vars

\* C8: calculateTitleMatch returns an integer in 0..100 for every title and
\* query, and 0 when the title or the query is empty or missing.
C8_ScoreRange ==
    tmResult # <<>> =>
        /\ tmResult[1] \in 0..100
        /\ (Falsy(tmTitle) \/ Falsy(tmQuery)) => tmResult[1] = 0

\* A word-by-word score was computed: two of three query words match
\* exactly, and 140/3 is rounded to 47.
C8_Witness ==
    /\ tmResult = <<47>>
    /\ ~Falsy(tmTitle)
    /\ ~Falsy(tmQuery)

\* The guard case was computed as well.
C8_WitnessEmpty ==
    /\ tmResult = <<0>>
    /\ Falsy(tmTitle)

====
